---------------------------- MODULE Spec2Model ----------------------------
(***************************************************************************)
(* A model of bench_conn.c: the fuzzy option matcher match_string_fuzzy    *)
(* and the pipeline driver main.                                           *)
(*                                                                         *)
(* C strings are sequences of character codes without their terminating   *)
(* NUL; reading position Len(s) of a string s yields the NUL, reading a    *)
(* later position is a read outside the object.                            *)
(*                                                                         *)
(* The callbacks cb_control and cb_conn run on the library's threads; they *)
(* log, release the buffer they are handed and touch none of this state.   *)
(***************************************************************************)
EXTENDS Integers, Sequences, FiniteSets, TLC

VARIABLES
    \* ---- match_string_fuzzy: arguments, locals, return value
    array,          \* const char * const *array (the sentinel included)
    n,              \* int n
    string,         \* const char *string
    mpc,            \* position in match_string_fuzzy
    index,          \* int index
    count,          \* int count
    is_null_found,  \* _Bool is_null_found
    is_matched,     \* _Bool is_matched
    is_ambiguous,   \* _Bool is_ambiguous
    matched_index,  \* int matched_index
    result,         \* the value returned
    oob,            \* some item[count] was read past the item's NUL
    \* ---- main
    pc,             \* position in main
    opt,            \* int opt, the option being handled
    optcause,       \* why getopt returned what it did
    nopts,          \* options taken from argv so far
    encoding, source, pattern, dest, conn,
    width, height, msec, camera_num, source_output_port,
    calls,          \* the calls made to the media library, in order
    exited_at,      \* the position at which the process ended
    exit_status     \* the process's exit status

mvars == <<array, n, string, mpc, index, count, is_null_found, is_matched,
           is_ambiguous, matched_index, result, oob>>
cfgvars == <<encoding, source, pattern, dest, conn, width, height, msec,
             camera_num, source_output_port>>
dvars == <<pc, opt, optcause, nopts, calls, exited_at, exit_status>>
vars == <<mvars, cfgvars, dvars>>

---------------------------------------------------------------------------
(* Bounds of the model.                                                    *)

\* candidates of a drawn table
MaxCands == 3
\* characters of a drawn candidate
MaxLen == 2
\* characters of a drawn input string
MaxInLen == 2
\* the prefix length at which the model stops counting up
CountCap == 9
\* options on a command line
MaxOpts == 2

---------------------------------------------------------------------------
(* Characters and strings.                                                 *)

Lower == <<"a","b","c","d","e","f","g","h","i","j","k","l","m",
           "n","o","p","q","r","s","t","u","v","w","x","y","z">>
Upper == <<"A","B","C","D","E","F","G","H","I","J","K","L","M",
           "N","O","P","Q","R","S","T","U","V","W","X","Y","Z">>
Digit == <<"0","1","2","3","4","5","6","7","8","9">>

\* the character code of a one-character literal
Ord(c) ==
    IF c = "-" THEN 45
    ELSE CHOOSE k \in 48..122 :
           \/ k \in 97..122 /\ Lower[k - 96] = c
           \/ k \in 65..90  /\ Upper[k - 64] = c
           \/ k \in 48..57  /\ Digit[k - 47] = c

\* a string literal, given character by character
Str(s) == [i \in 1..Len(s) |-> Ord(s[i])]

NUL == 0
\* the null pointer: no string has this value
NULL == <<-1>>

\* s[p] in C, for p no later than the NUL
CharAt(s, p) == IF p < Len(s) THEN s[p + 1] ELSE NUL

ToLower(c) == IF c \in 65..90 THEN c + 32 ELSE c

RECURSIVE CmpFrom(_, _, _, _)
CmpFrom(s1, s2, k, p) ==
    IF p >= k THEN 0
    ELSE LET c1 == ToLower(CharAt(s1, p))
             c2 == ToLower(CharAt(s2, p))
         IN  IF c1 # c2 THEN c1 - c2
             ELSE IF c1 = NUL THEN 0
             ELSE CmpFrom(s1, s2, k, p + 1)

\* a comparison that looks at one character more
StrNCaseCmpOneMore(s1, s2, k) == CmpFrom(s1, s2, k + 1, 0)

\* strncasecmp(s1, s2, k): 0 when equal on the first k characters
StrNCaseCmp(s1, s2, k) == CmpFrom(s1, s2, k, 0)

ENOENT == 2
ENOTUNIQ == 76

---------------------------------------------------------------------------
(* The candidate tables of main.                                           *)

encoding_table == << Str(<<"i","4","2","0">>), Str(<<"r","g","b","a">>), NULL >>
source_table == << Str(<<"s","o","u","r","c","e">>),
                   Str(<<"c","a","m","e","r","a">>), NULL >>
pattern_table == << Str(<<"w","h","i","t","e">>), Str(<<"b","l","a","c","k">>),
                    Str(<<"d","i","a","g","o","n","a","l">>),
                    Str(<<"n","o","i","s","e">>),
                    Str(<<"r","a","n","d","o","m">>),
                    Str(<<"c","o","l","o","u","r">>),
                    Str(<<"b","l","o","c","k","s">>),
                    Str(<<"s","w","i","r","l","y">>), NULL >>
dest_table == << Str(<<"n","u","l","l">>), Str(<<"r","e","n","d","e","r">>), NULL >>
conn_table == << Str(<<"t","u","n","n","e","l">>),
                 Str(<<"c","a","l","l","b","a","c","k">>),
                 Str(<<"q","u","e","u","e">>), NULL >>

\* MMAL_COUNTOF(table): the sentinel is counted
MMAL_COUNTOF(t) == Len(t)

StaticTables == {encoding_table, source_table, pattern_table, dest_table,
                 conn_table}

\* the entries before the sentinel
NumCands(t) ==
    IF \E i \in 1..Len(t) : t[i] = NULL
    THEN (CHOOSE i \in 1..Len(t) :
             t[i] = NULL /\ \A j \in 1..(i - 1) : t[j] # NULL) - 1
    ELSE Len(t)

---------------------------------------------------------------------------
(* match_string_fuzzy.                                                     *)

\* entering `for (count = c; ; count ++)` at its body
EnterPass(c) ==
    /\ count' = c
    /\ index' = 0
    /\ is_null_found' = FALSE
    /\ is_matched' = FALSE
    /\ is_ambiguous' = FALSE
    /\ mpc' = "scan"
    /\ UNCHANGED <<matched_index, result, oob>>

Return(v) ==
    /\ result' = v
    /\ mpc' = "done"

\* one iteration of the first loop: reject a table with an empty entry
CheckEntry ==
    /\ mpc = "check"
    /\ IF index < n /\ array[index + 1] # NULL
       THEN IF CharAt(array[index + 1], 0) = NUL
            THEN /\ Return(-ENOENT)
                 /\ UNCHANGED <<index, count, is_null_found, is_matched,
                                is_ambiguous, matched_index, oob>>
            ELSE /\ index' = index + 1
                 /\ UNCHANGED <<mpc, count, is_null_found, is_matched,
                                is_ambiguous, matched_index, result, oob>>
       ELSE EnterPass(1)
    /\ UNCHANGED <<array, n, string, cfgvars, dvars>>

\* what `item[count] == '\0'` can evaluate to
NulReads(item, c) ==
    IF c <= Len(item) THEN {CharAt(item, c) = NUL} ELSE BOOLEAN

\* one iteration of the inner loop
Scan ==
    /\ mpc = "scan"
    /\ IF index < n /\ array[index + 1] # NULL
       THEN LET item == array[index + 1] IN
            \E isnul \in NulReads(item, count) :
              /\ is_null_found' = (is_null_found \/ isnul)
              /\ oob' = (oob \/ count > Len(item))
              /\ IF StrNCaseCmp(item, string, count) = 0
                 THEN IF is_matched
                      THEN /\ is_ambiguous' = TRUE
                           /\ mpc' = "decide"
                           /\ UNCHANGED <<index, is_matched, matched_index>>
                      ELSE /\ is_matched' = TRUE
                           /\ matched_index' = index
                           /\ index' = index + 1
                           /\ UNCHANGED <<mpc, is_ambiguous>>
                 ELSE /\ index' = index + 1
                      /\ UNCHANGED <<mpc, is_matched, is_ambiguous,
                                     matched_index>>
       ELSE /\ mpc' = "decide"
            /\ UNCHANGED <<index, is_null_found, is_matched, is_ambiguous,
                           matched_index, oob>>
    /\ UNCHANGED <<array, n, string, count, result, cfgvars, dvars>>

\* a pass that goes on to the next count even with a NUL seen
PassOutcomeNoNulCheck(m, a, z) ==
    IF m /\ ~a THEN "return_index" ELSE "next_count"

\* what the outer loop does after a pass over the table
PassOutcome(m, a, z) ==
    IF m /\ ~a THEN "return_index"
    ELSE IF z THEN "return_enotuniq"
    ELSE "next_count"

\* the end of the outer loop's body
Decide ==
    /\ mpc = "decide"
    /\ LET o == PassOutcome(is_matched, is_ambiguous, is_null_found) IN
       IF o = "next_count"
       THEN EnterPass(IF count < CountCap THEN count + 1 ELSE count)
       ELSE /\ Return(IF o = "return_index" THEN matched_index ELSE -ENOTUNIQ)
            /\ UNCHANGED <<index, count, is_null_found, is_matched,
                           is_ambiguous, matched_index, oob>>
    /\ UNCHANGED <<array, n, string, cfgvars, dvars>>

NextMatch == CheckEntry \/ Scan \/ Decide

\* the state on entry to match_string_fuzzy(a, k, s)
Call(a, k, s) ==
    /\ array = a
    /\ n = k
    /\ string = s
    /\ mpc = "check"
    /\ index = 0
    /\ count = 0
    /\ is_null_found = FALSE
    /\ is_matched = FALSE
    /\ is_ambiguous = FALSE
    /\ matched_index = -1
    /\ result = 0
    /\ oob = FALSE

---------------------------------------------------------------------------
(* The driver is idle while the matcher is exercised on its own.           *)

ConfigDefaults ==
    /\ encoding = 0
    /\ source = 0
    /\ pattern = 0
    /\ dest = 0
    /\ conn = 0
    /\ width = 1920
    /\ height = 1080
    /\ msec = 1000
    /\ camera_num = -1
    /\ source_output_port = 0

DriverIdle ==
    /\ ConfigDefaults
    /\ pc = "harness"
    /\ opt = "none"
    /\ optcause = "none"
    /\ nopts = 0
    /\ calls = << >>
    /\ exited_at = "none"
    /\ exit_status = -1

\* the characters drawn tables and inputs are made of
Sigma == {Ord("a"), Ord("b"), Ord("A")}

\* the strings over S of at most k characters
StringsUpTo(S, k) == UNION {[1..l -> S] : l \in 0..k}

\* tables of at most MaxCands candidates, closed by the sentinel
DrawnTables ==
    {Append(t, NULL) :
        t \in UNION {[1..l -> StringsUpTo(Sigma, MaxLen)] : l \in 0..MaxCands}}

\* n as a caller may pass it: inferred (<0), the entries, or the array's size
DrawnCounts(t) == {-1, NumCands(t), MMAL_COUNTOF(t)}

InitMatch ==
    /\ \E t \in DrawnTables : \E k \in DrawnCounts(t) :
       \E s \in StringsUpTo(Sigma, MaxInLen) : Call(t, k, s)
    /\ DriverIdle

MatchSpec == InitMatch /\ [][NextMatch]_vars /\ WF_vars(NextMatch)

---------------------------------------------------------------------------
(* Properties of match_string_fuzzy.                                       *)

\* the candidates a call looks at
Cands == 1..NumCands(array)

SameLetter(c1, c2) == ToLower(c1) = ToLower(c2)

\* s is, case-insensitively, a prefix of t
IsPrefixCI(s, t) ==
    /\ Len(s) <= Len(t)
    /\ \A p \in 1..Len(s) : SameLetter(s[p], t[p])

\* s and t agree, case-insensitively, on their first k characters; strings
\* that end before that agree when they are the same string
AgreeOn(s, t, k) ==
    \/ /\ Len(s) >= k
       /\ Len(t) >= k
       /\ \A p \in 1..k : SameLetter(s[p], t[p])
    \/ /\ Len(s) < k
       /\ Len(s) = Len(t)
       /\ \A p \in 1..Len(s) : SameLetter(s[p], t[p])

\* a count the caller passes for the table it passes
ExplicitCount == n \in {NumCands(array), MMAL_COUNTOF(array)}

\* a non-empty table of non-empty, distinct entries, none a prefix of another
PrefixFree ==
    /\ Cands # {}
    /\ \A i \in Cands : Len(array[i]) > 0
    /\ \A i, j \in Cands : i # j => ~IsPrefixCI(array[i], array[j])

\* C1: on a non-empty table of non-empty, pairwise distinct entries, none a
\* prefix of another, the full exact string of candidate i resolves to i.
C1_ExactStringResolves ==
    (mpc = "done" /\ ExplicitCount /\ PrefixFree) =>
        \A i \in Cands : string = array[i] => result = i - 1

\* C2: when more than one candidate matches at prefix length k, the call
\* reports ambiguous exactly when some candidate of the table, at any
\* position, has length k (here on tables of distinct entries, none a
\* prefix of another, and in calls that have read no entry past its NUL).
C2_AmbiguousIffSomeLengthK ==
    (mpc = "decide" /\ ExplicitCount /\ PrefixFree /\ is_ambiguous /\ ~oob) =>
        (is_null_found <=> \E i \in Cands : Len(array[i]) = count)

\* C3: an input that matches no candidate at any prefix length fails with
\* the not-found outcome -ENOENT.
C3_NoMatchIsNotFound ==
    ( /\ mpc = "done"
      /\ ExplicitCount
      /\ Cands # {}
      /\ Len(string) > 0
      /\ \A i \in Cands : /\ Len(array[i]) > 0
                          /\ ~SameLetter(array[i][1], string[1]) )
    => result = -ENOENT

\* C8: called with a negative count on a NULL-terminated table, the call
\* terminates.
C8_InferredCountTerminates ==
    (n < 0 /\ Cands # {} /\ \A i \in Cands : Len(array[i]) > 0)
        => <>(mpc = "done")

\* C9 as stated: a returned index names a candidate the whole input is a
\* case-insensitive prefix of.
C9_InputIsPrefixOfResult ==
    (mpc = "done" /\ result >= 0) => IsPrefixCI(string, array[result + 1])

\* C9 as amended: a returned index names the only candidate that agrees
\* with the input on the first count characters, count being the prefix
\* length at which the call returned.
C9_ResultAgreesOnCountChars ==
    (mpc = "done" /\ result >= 0) =>
        /\ count >= 1
        /\ result + 1 \in Cands
        /\ AgreeOn(array[result + 1], string, count)
        /\ \A j \in Cands :
              (j # result + 1 /\ j <= n) => ~AgreeOn(array[j], string, count)

\* C9: an input with characters candidate i does not have was resolved to i
C9_Witness ==
    /\ mpc = "done"
    /\ result >= 0
    /\ ~IsPrefixCI(string, array[result + 1])

---------------------------------------------------------------------------
(* The matcher on the tables of main.                                      *)

\* characters an input goes on with after leaving a candidate's prefix
MaxTail == 1

Probe == {Ord("x"), Ord("a"), Ord("E")}

ToUpper(c) == IF c \in 97..122 THEN c - 32 ELSE c

\* the prefixes of t's candidates, as typed in lower and in upper case
TablePrefixes(t) ==
    UNION { UNION { { SubSeq(t[i], 1, p),
                      [q \in 1..p |-> ToUpper(t[i][q])] } :
                    p \in 0..Len(t[i]) } :
            i \in 1..NumCands(t) }

\* a prefix of a candidate followed by at most MaxTail other characters:
\* no comparison looks past the first character that leaves every candidate
TableInputs(t) ==
    { pre \o tail : pre \in TablePrefixes(t),
                    tail \in StringsUpTo(Probe, MaxTail) }

InitTable ==
    /\ \E t \in StaticTables : \E s \in TableInputs(t) :
          Call(t, MMAL_COUNTOF(t), s)
    /\ DriverIdle

TableSpec == InitTable /\ [][NextMatch]_vars /\ WF_vars(NextMatch)

\* the read `item[count]` the inner loop is about to make is inside item
NextReadInBounds ==
    (mpc = "scan" /\ index < n /\ array[index + 1] # NULL)
        => count <= Len(array[index + 1])

\* C10: on each of main's five tables and for every input, the call
\* terminates, never reads a candidate past its NUL, and a non-negative
\* return value is the index of an entry before the sentinel.
C10_StaticTablesSafe ==
    /\ [](array \in StaticTables =>
            /\ ~oob
            /\ NextReadInBounds
            /\ (mpc = "done" /\ result >= 0) => result + 1 \in Cands)
    /\ <>(mpc = "done")

\* C10: "bla" resolved to "black" after two passes that stopped at "blocks"
C10_Witness ==
    /\ array = pattern_table
    /\ mpc = "done"
    /\ count = 3
    /\ result = 1

---------------------------------------------------------------------------
(* main: option parsing.                                                   *)

EXIT_SUCCESS == 0
EXIT_FAILURE == 1

SOURCE_SOURCE == 0
SOURCE_CAMERA == 1
DEST_NULL == 0
DEST_RENDER == 1

RECURSIVE AtoiDigits(_, _, _)
AtoiDigits(s, p, acc) ==
    IF p > Len(s) \/ s[p] \notin 48..57 THEN acc
    ELSE AtoiDigits(s, p + 1, acc * 10 + (s[p] - 48))

\* atoi(s): an optional minus sign, then the leading digits
Atoi(s) ==
    IF Len(s) > 0 /\ s[1] = 45 THEN 0 - AtoiDigits(s, 2, 0)
    ELSE AtoiDigits(s, 1, 0)

\* the table each option's argument is matched against
TableOf(o) ==
    CASE o = "e" -> encoding_table
      [] o = "s" -> source_table
      [] o = "p" -> pattern_table
      [] o = "d" -> dest_table
      [] o = "c" -> conn_table

\* option arguments given on the command line to -e -s -p -d -c
OptArgs == { Str(<<"s">>), Str(<<"c">>), Str(<<"r">>), Str(<<"C","a","m">>),
             Str(<<"b","l">>), Str(<<"x">>) }

\* option arguments given to -w -h -t -n
NumArgs == { Str(<<"0">>), Str(<<"1">>), Str(<<"-","1">>) }

\* option arguments given to -o: the ports the usage text names
PortArgs == { Str(<<"0">>), Str(<<"1">>), Str(<<"2">>) }

\* exit(status) at the current position
Exit(status) ==
    /\ exit_status' = status
    /\ exited_at' = pc
    /\ pc' = "exit"

\* getopt returns one of e s p d c: main calls match_string_fuzzy
OptMatch(o, arg) ==
    /\ pc = "getopt"
    /\ nopts < MaxOpts
    /\ array' = TableOf(o)
    /\ n' = MMAL_COUNTOF(TableOf(o))
    /\ string' = arg
    /\ mpc' = "check"
    /\ index' = 0
    /\ count' = 0
    /\ is_null_found' = FALSE
    /\ is_matched' = FALSE
    /\ is_ambiguous' = FALSE
    /\ matched_index' = -1
    /\ result' = 0
    /\ UNCHANGED oob
    /\ pc' = "matching"
    /\ opt' = o
    /\ optcause' = "option"
    /\ nopts' = nopts + 1
    /\ UNCHANGED <<cfgvars, calls, exited_at, exit_status>>

\* match_string_fuzzy has returned to the switch
OptMatchReturn ==
    /\ pc = "matching"
    /\ mpc = "done"
    /\ mpc' = "idle"
    /\ UNCHANGED <<array, n, string, index, count, is_null_found, is_matched,
                   is_ambiguous, matched_index, result, oob>>
    /\ IF result = -ENOTUNIQ \/ result = -ENOENT
       THEN /\ Exit(EXIT_FAILURE)
            /\ UNCHANGED cfgvars
       ELSE /\ pc' = "getopt"
            /\ encoding' = IF opt = "e" THEN result ELSE encoding
            /\ source' = IF opt = "s" THEN result ELSE source
            /\ pattern' = IF opt = "p" THEN result ELSE pattern
            /\ dest' = IF opt = "d" THEN result ELSE dest
            /\ conn' = IF opt = "c" THEN result ELSE conn
            /\ UNCHANGED <<width, height, msec, camera_num,
                           source_output_port, exited_at, exit_status>>
    /\ UNCHANGED <<opt, optcause, nopts, calls>>

\* getopt returns one of w h t n o
OptNumber(o, arg) ==
    /\ pc = "getopt"
    /\ nopts < MaxOpts
    /\ opt' = o
    /\ optcause' = "option"
    /\ nopts' = nopts + 1
    /\ width' = IF o = "w" THEN Atoi(arg) ELSE width
    /\ height' = IF o = "h" THEN Atoi(arg) ELSE height
    /\ msec' = IF o = "t" THEN Atoi(arg) ELSE msec
    /\ camera_num' = IF o = "n" THEN Atoi(arg) ELSE camera_num
    /\ source_output_port' = IF o = "o" THEN Atoi(arg) ELSE source_output_port
    /\ UNCHANGED <<mvars, encoding, source, pattern, dest, conn, pc, calls,
                   exited_at, exit_status>>

\* getopt returns '?': for -?, for a flag that is not in the option string
\* and for an option that lacks its argument alike
OptQuestion(cause) ==
    /\ pc = "getopt"
    /\ nopts < MaxOpts
    /\ opt' = "?"
    /\ optcause' = cause
    /\ nopts' = nopts + 1
    /\ Exit(EXIT_SUCCESS)
    /\ UNCHANGED <<mvars, cfgvars, calls>>

\* getopt returns -1; extra tells whether optind != argc
OptEnd(extra) ==
    /\ pc = "getopt"
    /\ opt' = "end"
    /\ optcause' = IF extra THEN "extra_arguments" ELSE "end"
    /\ IF extra
       THEN Exit(EXIT_FAILURE)
       ELSE /\ pc' = "validate"
            /\ UNCHANGED <<exited_at, exit_status>>
    /\ UNCHANGED <<mvars, cfgvars, nopts, calls>>

---------------------------------------------------------------------------
(* main: the pipeline.  The media library is outside this program: each of *)
(* its calls returns a status the model draws.                             *)

Statuses == {"MMAL_SUCCESS", "MMAL_ENOSYS"}

\* a check that lets every status through
CheckMmalNever(status) == FALSE

\* check_mmal(x): whether the process exits on x's status
CheckMmal(status) == status # "MMAL_SUCCESS"

\* a library call made under check_mmal
LibCall(f, o) == [fn |-> f, on |-> o, checked |-> TRUE]

\* a library call that returns no status, as it is made in a stage
GetPort(o) == [fn |-> "mmal_util_get_port", on |-> o, checked |-> FALSE]

\* a library call that returns no status, as it is recorded
Unchecked(f, o) == [fn |-> f, on |-> o, status |-> "none"]

\* check_mmal prints the status by way of mmal_status_to_string
ErrorMessageCall == Unchecked("mmal_status_to_string", "status")

\* calls that create, configure, connect or release a component
ComponentFns ==
    { "mmal_component_create", "mmal_util_get_port", "mmal_port_enable",
      "mmal_port_parameter_set",
      "mmal_port_parameter_set_int32", "mmal_port_parameter_set_boolean",
      "mmal_port_parameter_get", "mmal_port_format_commit",
      "mmal_component_enable", "mmal_connection_create",
      "mmal_connection_enable", "mmal_connection_disable",
      "mmal_connection_destroy", "mmal_component_destroy" }

\* the calls in xs are made in order, each under check_mmal, with the
\* statuses st; the first status check_mmal exits on ends the process, and
\* the position moves to next when there is none
DoCalls(xs, st, next) ==
    LET exits == {i \in 1..Len(xs) : xs[i].checked /\ CheckMmal(st[i])}
        made  == IF exits = {} THEN Len(xs)
                 ELSE CHOOSE i \in exits : \A j \in exits : i <= j
        log   == [i \in 1..made |->
                    [fn |-> xs[i].fn, on |-> xs[i].on,
                     status |-> IF xs[i].checked THEN st[i] ELSE "none"]]
    IN  /\ calls' = IF exits = {} THEN calls \o log
                     ELSE calls \o log \o << ErrorMessageCall >>
        /\ IF exits = {}
           THEN /\ pc' = next
                /\ UNCHANGED <<exited_at, exit_status>>
           ELSE Exit(EXIT_FAILURE)

\* a check that lets every port through
SourcePortInvalidNever(src, port) == FALSE

\* `source == SOURCE_SOURCE && source_output_port != 0`
SourcePortInvalid(src, port) == src = SOURCE_SOURCE /\ port # 0

\* the summary is printed, then the output port is validated
Validate ==
    /\ pc = "validate"
    /\ calls' = Append(calls, Unchecked("mmal_4cc_to_string", "fourcc"))
    /\ IF SourcePortInvalid(source, source_output_port)
       THEN Exit(EXIT_FAILURE)
       ELSE /\ pc' = "create_source"
            /\ UNCHANGED <<exited_at, exit_status>>
    /\ UNCHANGED <<mvars, cfgvars, opt, optcause, nopts>>

SourceSetup ==
    IF source = SOURCE_SOURCE
    THEN << LibCall("mmal_port_parameter_set", "cp_source.output") >>
    ELSE IF camera_num >= 0
    THEN << LibCall("mmal_port_parameter_set_int32", "cp_source.control") >>
    ELSE << >>

SourceCalls ==
    << LibCall("mmal_component_create", "cp_source"),
       GetPort("cp_source.control"),
       LibCall("mmal_port_enable", "cp_source.control"),
       GetPort("cp_source.output") >>
    \o SourceSetup
    \o << LibCall("mmal_port_format_commit", "cp_source.output"),
          LibCall("mmal_component_enable", "cp_source") >>

DestCalls ==
    << LibCall("mmal_component_create", "cp_dest"),
       GetPort("cp_dest.control"),
       LibCall("mmal_port_enable", "cp_dest.control"),
       GetPort("cp_dest.input"),
       LibCall("mmal_port_format_commit", "cp_dest.input"),
       LibCall("mmal_component_enable", "cp_dest") >>

ConnectCalls ==
    << LibCall("mmal_connection_create", "conn_source_dest"),
       LibCall("mmal_connection_enable", "conn_source_dest") >>
    \o IF source = SOURCE_CAMERA /\ source_output_port \in {1, 2}
       THEN << LibCall("mmal_port_parameter_set_boolean", "cp_source.output") >>
       ELSE << >>

DisableCalls == << LibCall("mmal_connection_disable", "conn_source_dest") >>

StatsCalls ==
    (IF source = SOURCE_SOURCE
     THEN << LibCall("mmal_port_parameter_get", "cp_source.output") >>
     ELSE << >>)
    \o (IF dest = DEST_RENDER
        THEN << LibCall("mmal_port_parameter_get", "cp_dest.input") >>
        ELSE << >>)

\* a teardown that releases the components before the connection
TeardownCallsSourceFirst ==
    << LibCall("mmal_component_destroy", "cp_source"),
       LibCall("mmal_component_destroy", "cp_dest"),
       LibCall("mmal_connection_destroy", "conn_source_dest") >>

TeardownCalls ==
    << LibCall("mmal_connection_destroy", "conn_source_dest"),
       LibCall("mmal_component_destroy", "cp_dest"),
       LibCall("mmal_component_destroy", "cp_source") >>

CreateSource ==
    /\ pc = "create_source"
    /\ \E st \in [1..Len(SourceCalls) -> Statuses] :
          DoCalls(SourceCalls, st, "create_dest")
    /\ UNCHANGED <<mvars, cfgvars, opt, optcause, nopts>>

CreateDest ==
    /\ pc = "create_dest"
    /\ \E st \in [1..Len(DestCalls) -> Statuses] :
          DoCalls(DestCalls, st, "connect")
    /\ UNCHANGED <<mvars, cfgvars, opt, optcause, nopts>>

Connect ==
    /\ pc = "connect"
    /\ \E st \in [1..Len(ConnectCalls) -> Statuses] :
          DoCalls(ConnectCalls, st, "sleep")
    /\ UNCHANGED <<mvars, cfgvars, opt, optcause, nopts>>

\* nanosleep, its result ignored
Sleep ==
    /\ pc = "sleep"
    /\ pc' = "disable"
    /\ UNCHANGED <<mvars, cfgvars, opt, optcause, nopts, calls, exited_at,
                   exit_status>>

Disable ==
    /\ pc = "disable"
    /\ \E st \in [1..Len(DisableCalls) -> Statuses] :
          DoCalls(DisableCalls, st, "stats")
    /\ UNCHANGED <<mvars, cfgvars, opt, optcause, nopts>>

ShowStats ==
    /\ pc = "stats"
    /\ \E st \in [1..Len(StatsCalls) -> Statuses] :
          DoCalls(StatsCalls, st, "teardown")
    /\ UNCHANGED <<mvars, cfgvars, opt, optcause, nopts>>

\* the three destroy calls, then `return 0`
Teardown ==
    /\ pc = "teardown"
    /\ \E st \in [1..Len(TeardownCalls) -> Statuses] :
          DoCalls(TeardownCalls, st, "returned")
    /\ UNCHANGED <<mvars, cfgvars, opt, optcause, nopts>>

Return0 ==
    /\ pc = "returned"
    /\ Exit(EXIT_SUCCESS)
    /\ UNCHANGED <<mvars, cfgvars, opt, optcause, nopts, calls>>

MatchOpts == {"e", "s", "p", "d", "c"}
NumberOpts == {"w", "h", "t", "n"}

NextMain ==
    \/ \E o \in MatchOpts : \E arg \in OptArgs : OptMatch(o, arg)
    \/ CheckEntry \/ Scan \/ Decide
    \/ OptMatchReturn
    \/ \E o \in NumberOpts : \E arg \in NumArgs : OptNumber(o, arg)
    \/ \E arg \in PortArgs : OptNumber("o", arg)
    \/ \E cause \in {"help", "unknown_option", "missing_argument"} :
          OptQuestion(cause)
    \/ \E extra \in BOOLEAN : OptEnd(extra)
    \/ Validate
    \/ CreateSource \/ CreateDest \/ Connect \/ Sleep \/ Disable
    \/ ShowStats \/ Teardown \/ Return0

InitMain ==
    /\ array = << NULL >>
    /\ n = 0
    /\ string = << >>
    /\ mpc = "idle"
    /\ index = 0
    /\ count = 0
    /\ is_null_found = FALSE
    /\ is_matched = FALSE
    /\ is_ambiguous = FALSE
    /\ matched_index = -1
    /\ result = 0
    /\ oob = FALSE
    /\ ConfigDefaults
    /\ pc = "getopt"
    /\ opt = "none"
    /\ optcause = "none"
    /\ nopts = 0
    /\ calls = << >>
    /\ exited_at = "none"
    /\ exit_status = -1

MainSpec == InitMain /\ [][NextMain]_vars /\ WF_vars(NextMain)

---------------------------------------------------------------------------
(* Properties of main.                                                     *)

Succeeded(i) == calls[i].status = "MMAL_SUCCESS"

Failed(i) == calls[i].status \in Statuses \ {"MMAL_SUCCESS"}

IsCall(i, f, o) == calls[i].fn = f /\ calls[i].on = o

\* call f on o was made before position i and succeeded
DoneBefore(i, f, o) ==
    \E j \in 1..(i - 1) : IsCall(j, f, o) /\ Succeeded(j)

NoComponentCall == \A i \in 1..Len(calls) : calls[i].fn \notin ComponentFns

\* the option loop ended with nothing left on the command line
OptionsParsed == optcause = "end"

\* C4: the exit status is 0 on a completed run and on -?, and nonzero on
\* every parse error, validation failure and failed library call.
C4_ZeroOnlyOnCompletionOrHelp ==
    pc = "exit" =>
        IF exited_at = "returned" \/ optcause = "help"
        THEN exit_status = EXIT_SUCCESS
        ELSE exit_status # EXIT_SUCCESS

\* C5: with the generator as source and an output port other than 0 the
\* process exits with failure at the validation and makes no
\* component-level call; no component-level call is made before the
\* validation has passed.
C5_InvalidPortTouchesNoComponent ==
    /\ ( /\ OptionsParsed
         /\ source = SOURCE_SOURCE
         /\ source_output_port # 0 )
       => /\ NoComponentCall
          /\ pc \in {"validate", "exit"}
          /\ pc = "exit" => /\ exit_status = EXIT_FAILURE
                            /\ exited_at = "validate"
    /\ ~NoComponentCall
       => /\ OptionsParsed
          /\ pc \notin {"getopt", "matching", "validate"}
          /\ exited_at \notin {"getopt", "matching", "validate"}
          /\ ~(source = SOURCE_SOURCE /\ source_output_port # 0)

\* C5: the run ended at the validation of the generator's output port
C5_Witness ==
    /\ pc = "exit"
    /\ exited_at = "validate"
    /\ source = SOURCE_SOURCE
    /\ source_output_port # 0
    /\ exit_status = EXIT_FAILURE

\* C6: the connection is destroyed only once disabled, the destination
\* only once the connection is destroyed, the source only once the
\* destination is destroyed; a completed run ends with these three calls.
C6_TeardownOrder ==
    /\ \A i \in 1..Len(calls) :
        /\ IsCall(i, "mmal_connection_destroy", "conn_source_dest")
           => DoneBefore(i, "mmal_connection_disable", "conn_source_dest")
        /\ IsCall(i, "mmal_component_destroy", "cp_dest")
           => DoneBefore(i, "mmal_connection_destroy", "conn_source_dest")
        /\ IsCall(i, "mmal_component_destroy", "cp_source")
           => /\ DoneBefore(i, "mmal_connection_destroy", "conn_source_dest")
              /\ DoneBefore(i, "mmal_component_destroy", "cp_dest")
    /\ (pc = "exit" /\ exited_at = "returned")
       => LET l == Len(calls) IN
          /\ l >= 3
          /\ IsCall(l - 2, "mmal_connection_destroy", "conn_source_dest")
          /\ IsCall(l - 1, "mmal_component_destroy", "cp_dest")
          /\ IsCall(l, "mmal_component_destroy", "cp_source")
          /\ \A i \in 1..l : ~Failed(i)

\* C6: a run went through the whole teardown
C6_Witness ==
    /\ pc = "exit"
    /\ exited_at = "returned"
    /\ \E i \in 1..Len(calls) :
          IsCall(i, "mmal_component_destroy", "cp_source")

\* C7 as stated: a library call that returns a non-success status is the
\* last library call the process makes, and the process has ended with
\* failure.
C7_NoCallAfterFailure ==
    \A i \in 1..Len(calls) :
        Failed(i) => /\ i = Len(calls)
                     /\ pc = "exit"
                     /\ exit_status = EXIT_FAILURE

\* C7 as amended: after a library call that returns a non-success status
\* the process has ended with failure, and the one library call that
\* follows is mmal_status_to_string, for the error message.
C7_FailFast ==
    \A i \in 1..Len(calls) :
        Failed(i) => /\ pc = "exit"
                     /\ exit_status = EXIT_FAILURE
                     /\ i + 1 = Len(calls)
                     /\ calls[i + 1] = ErrorMessageCall
                     /\ \A j \in 1..(i - 1) : ~Failed(j)

\* C7: enabling the connection failed with both components and the
\* connection created; nothing was disabled or destroyed afterwards
C7_Witness ==
    /\ pc = "exit"
    /\ Len(calls) > 0
    /\ Len(calls) > 1
    /\ IsCall(Len(calls) - 1, "mmal_connection_enable", "conn_source_dest")
    /\ Failed(Len(calls) - 1)
    /\ DoneBefore(Len(calls), "mmal_connection_create", "conn_source_dest")

=============================================================================
